---- MODULE Spec2Model ----
(***************************************************************************)
(* Model of the Botpress migration service                                 *)
(* (src/src/bp/core/services/migration/index.ts, class MigrationService).  *)
(*                                                                         *)
(* A process constructs the service and awaits initialize(); every await   *)
(* of initialize and of the methods it calls is one step of the model.     *)
(* The durable state (config file version, srv_metadata rows,              *)
(* srv_migrations rows) outlives the process; Restart starts a new         *)
(* process on the same durable state.                                      *)
(*                                                                         *)
(* Model of the message repository (src/unnamed/part_000, class            *)
(* KnexMessageRepository): callers run get, delete and deleteAll           *)
(* concurrently; a step is the execution of a query by the database or the *)
(* code of a method between two awaits.                                    *)
(***************************************************************************)
EXTENDS Integers, Sequences, FiniteSets, TLC

\* ------------------------------------------------------------------ bounds

\* Number of migration files on disk.
MaxUnits == 2
\* Versions are VersionOf(0) .. VersionOf(MaxVer).
MaxVer == 2
\* Timestamps in file names are 1 .. MaxDate.
MaxDate == 2
\* Number of processes started one after the other on the same durable state.
MaxRuns == 2
\* Number of migration files on disk in the runs with longer plans.
MaxBatch == 3
\* Number of loaded modules that bring migrations of their own.
MaxModules == 1
\* Length of the value of TESTMIG_IGNORE_LIST.
MaxListLen == 3
\* Message ids are 1 .. MaxMessages.
MaxMessages == 2
\* Conversation ids are 1 .. MaxConversations.
MaxConversations == 2
\* Number of concurrent callers of the message repository.
MaxCallers == 2

\* ---------------------------------------------------------------- versions

\* A semantic version is the tuple of its three numeric components.  The
\* empty tuple is what semver.valid returns for an unparseable string (null).
NoVersion == <<>>

VersionOf(n) == <<12, n \div 2, n % 2>>

Versions == {VersionOf(n) : n \in 0..MaxVer}

\* A string that is no semantic version, such as "12".
NotAVersion == <<12>>

\* A directive that is not set: undefined or the empty string, both falsy.
Absent == <<>>

\* a || b on version strings.
OrElse(a, b) == IF a # Absent THEN a ELSE b

\* The value of a variable of process.env or process.core_env, a function
\* from the names of the variables that are set to their values.
ValueOf(environment, name) ==
    IF name \in DOMAIN environment THEN environment[name] ELSE Absent

\* yn applied to the value of an environment variable.
Yn(value) == value = "true"

\* semver.valid applied to a string, for a file name with the underscores
\* already replaced by dots: three numeric components or null.
SemverValid(raw) == IF Len(raw) = 3 THEN raw ELSE NoVersion

\* semver ordering of two valid versions: major, then minor, then patch.
SemverGt(a, b) ==
    \/ a[1] > b[1]
    \/ a[1] = b[1] /\ a[2] > b[2]
    \/ a[1] = b[1] /\ a[2] = b[2] /\ a[3] > b[3]

SemverLte(a, b) == ~SemverGt(a, b)

\* semver.satisfies(version, `>${lo} <= ${hi}`); a null version satisfies
\* no range, and a range with an end that is no version is satisfied by no
\* version.
SemverSatisfies(version, lo, hi) ==
    /\ version # NoVersion
    /\ Len(lo) = 3
    /\ Len(hi) = 3
    /\ SemverGt(version, lo)
    /\ SemverLte(version, hi)

\* ------------------------------------------------------------------- files

MigrationTypes == {"database", "config", "content"}

Titles == 1..MaxUnits

\* The directories migrations are read from: 0 is the migrations directory
\* of the core, 1..MaxModules are the dist/migrations directories of
\* process.LOADED_MODULES, in the order of its keys.
Roots == 0..MaxModules

\* What is on disk for one migration: the directory it is in, the three
\* parts of its file name <version>-<timestamp>-<title>.js and the module
\* the file exports.
DiskFiles ==
    [rawVersion : Versions \cup {NotAVersion}, timestamp : 1..MaxDate,
     type : MigrationTypes, hasDown : BOOLEAN, root : Roots]

\* The files of the core whose names start with a semantic version.
CoreFiles == {f \in DiskFiles : f.rawVersion \in Versions /\ f.root = 0}

\* The title of the file at place t of disk d: the title the disk gives it,
\* its place when the disk gives none.
TitleAt(d, t) == IF "title" \in DOMAIN d[t] THEN d[t].title ELSE t

\* The name of the file at place t of disk d.
FileName(d, t) == <<d[t].rawVersion, d[t].timestamp, TitleAt(d, t)>>

\* The default export of a migration file: info.type, up (always there,
\* interface Migration) and the optional down.
ModuleOf(f) == [type |-> f.type, up |-> TRUE, down |-> f.hasDown]

\* _.sortBy / _.orderBy on the date: a stable ascending sort.
RECURSIVE InsertByDate(_, _)
InsertByDate(sorted, x) ==
    IF sorted = <<>> THEN <<x>>
    ELSE IF sorted[Len(sorted)].date <= x.date THEN Append(sorted, x)
    ELSE Append(InsertByDate(SubSeq(sorted, 1, Len(sorted) - 1), x),
                sorted[Len(sorted)])

RECURSIVE SortByDate(_)
SortByDate(s) ==
    IF s = <<>> THEN <<>>
    ELSE InsertByDate(SortByDate(SubSeq(s, 1, Len(s) - 1)), s[Len(s)])

\* glob.sync lists the files of a directory; the listing order is taken to
\* be the order of the titles.
RECURSIVE GlobSync(_, _)
GlobSync(d, t) ==
    IF t \notin DOMAIN d THEN <<>>
    ELSE <<t>> \o GlobSync(d, t + 1)

\* _getMigrations: one descriptor per file of the directory, ordered by
\* date.
GetMigrations(d, rootPath) ==
    LET listed == SelectSeq(GlobSync(d, 1), LAMBDA t : d[t].root = rootPath)
        descr(t) == [filename |-> FileName(d, t),
                     version  |-> SemverValid(d[t].rawVersion),
                     title    |-> TitleAt(d, t),
                     date     |-> d[t].timestamp,
                     location |-> t]
    IN  SortByDate([i \in 1..Len(listed) |-> descr(listed[i])])

\* getAllMigrations, lines 280-285: the descriptors of the core followed by
\* those of the modules from the given one on, each directory's descriptors
\* ordered by date.
RECURSIVE ModuleMigrations(_, _)
ModuleMigrations(d, module) ==
    IF module > MaxModules THEN <<>>
    ELSE GetMigrations(d, module) \o ModuleMigrations(d, module + 1)

ListedMigrations(d) == GetMigrations(d, 0) \o ModuleMigrations(d, 1)

\* The file names of a descriptor list.
FileNames(files) == {files[i].filename : i \in 1..Len(files)}

\* The title part of a file name.
TitleOf(filename) == filename[3]

\* ----------------------------------------------------------------- planner

Undefined == "undefined"

\* filterMigrations(files, currentVersion, {isDown, type}) of a service
\* whose targetVersion is target and whose loadedMigrations is loaded.
\* loaded is a function from file names to modules.
VersionFilterClosed(files, currentVersion, target, isDown) ==
    \* the lower end of the range taken as >= instead of >
    SelectSeq(files, LAMBDA file :
        /\ file.version # NoVersion
        /\ IF isDown
           THEN SemverLte(target, file.version)
                /\ SemverLte(file.version, currentVersion)
           ELSE SemverLte(currentVersion, file.version)
                /\ SemverLte(file.version, target))

VersionFilterNoUpper(files, currentVersion, target, isDown) ==
    \* the upper end of the range left out
    SelectSeq(files, LAMBDA file :
        /\ file.version # NoVersion
        /\ IF isDown THEN SemverGt(file.version, target)
           ELSE SemverGt(file.version, currentVersion))

VersionFilter(files, currentVersion, target, isDown) ==
    SelectSeq(files, LAMBDA file :
        IF isDown
        THEN SemverSatisfies(file.version, target, currentVersion)
        ELSE SemverSatisfies(file.version, currentVersion, target))

HasHandlerUpOnly(content, isDown) ==
    \* only the up handler looked at, whatever the direction
    content.up

HasHandler(content, isDown) ==
    IF isDown THEN content.down ELSE content.up

FilterMigrations(files, currentVersion, target, loaded, isDown, type) ==
    LET filteredFiles == VersionFilter(files, currentVersion, target, isDown)
    IN  IF DOMAIN loaded = {} THEN filteredFiles
        ELSE SelectSeq(filteredFiles, LAMBDA file :
                 /\ file.filename \in DOMAIN loaded
                 /\ HasHandler(loaded[file.filename], isDown)
                 /\ (type = Undefined \/ type = loaded[file.filename].type))

\* The list getMigrationsToExecute sorts: the three per-type selections.
PlanInput(all, db, config, target, loaded, isDown) ==
    FilterMigrations(all, db, target, loaded, isDown, "database")
    \o FilterMigrations(all, config, target, loaded, isDown, "config")
    \o FilterMigrations(all, config, target, loaded, isDown, "content")

PlanOfUnsorted(all, db, config, target, loaded, isDown) ==
    \* the sort left out
    PlanInput(all, db, config, target, loaded, isDown)

PlanOf(all, db, config, target, loaded, isDown) ==
    SortByDate(PlanInput(all, db, config, target, loaded, isDown))

\* ------------------------------------------------------------------- state

VARIABLES
    disk,                 \* migration files on disk, by title
    faults,               \* what fails: the inserts into a table, the removal of the cache
    MIGRATE_CMD,          \* process.MIGRATE_CMD: "undefined", "up" or "down"
    MIGRATE_DRYRUN,       \* process.MIGRATE_DRYRUN
    AUTO_MIGRATE,         \* process.AUTO_MIGRATE
    IS_FAILSAFE,          \* process.IS_FAILSAFE
    MIGRATE_TARGET,       \* process.MIGRATE_TARGET
    BOTPRESS_VERSION,     \* process.BOTPRESS_VERSION
    env,                  \* process.env: the variables set -> their values
    core_env,             \* process.core_env: the variables set -> their values
    botpressConfig,       \* version field of the persisted Botpress config
    srv_metadata,         \* server_version of the srv_metadata rows, oldest first
    srv_migrations,       \* rows of srv_migrations, oldest first
    targetVersion,        \* this.targetVersion
    configVersion,        \* this.configVersion
    dbVersion,            \* this.dbVersion
    loadedMigrations,     \* this.loadedMigrations: file name -> module
    pc,                   \* position of the process in initialize
    allMigrations,        \* initialize's allMigrations
    migrationsToExecute,  \* initialize's migrationsToExecute
    displayed,            \* what displayMigrationStatus has logged, if anything
    cursor,               \* number of plan units Promise.mapSeries has called back for
    hasFailures,          \* executeMigrations' hasFailures
    calls,                \* mapSeries callbacks so far: file name, direction, outcome
    cacheCleared,         \* the cache directory has been removed
    logger,               \* the errors and warnings logged so far
    coreMigrationCompleted, \* botMigration.coreMigrationCompleted was called
    runNo,                \* number of the running process
    pre,                  \* durable state when the running process started
    history               \* what the earlier processes did, oldest first

VARIABLES
    messages,             \* rows of the table messages: id -> conversationId
    cache,                \* this.cache: the ids whose message is cached
    requests,             \* the call each caller has in flight, if any
    deleted,              \* ids given to a delete or deleteAll that has returned
    returned              \* what the calls of get have returned

repository == <<messages, cache, requests, deleted, returned>>

directives == <<MIGRATE_CMD, MIGRATE_DRYRUN, AUTO_MIGRATE, IS_FAILSAFE,
                MIGRATE_TARGET, BOTPRESS_VERSION, env, core_env>>
durable    == <<botpressConfig, srv_metadata, srv_migrations>>
service    == <<targetVersion, configVersion, dbVersion, loadedMigrations>>
locals     == <<allMigrations, migrationsToExecute, displayed, cursor, hasFailures>>
observed   == <<calls, cacheCleared, logger, coreMigrationCompleted>>
runs       == <<runNo, pre, history>>
vars == <<repository, disk, faults, directives, durable, service, locals,
          observed, pc, runs>>

IsDown == MIGRATE_CMD = "down"

\* The disks with n files of the core, titled 1..n.
Disks == UNION {[1..n -> CoreFiles] : n \in 0..MaxUnits}

\* The schema marker: the newest srv_metadata row, if any.
SchemaMarker == IF srv_metadata = <<>> THEN NoVersion
                ELSE srv_metadata[Len(srv_metadata)]

\* The durable state as one value.
Durable == [config |-> botpressConfig, metadata |-> srv_metadata,
            migrations |-> srv_migrations]

\* displayMigrationStatus has not run.
NothingDisplayed == [shown |-> FALSE, dryRun |-> FALSE, groups |-> <<>>]

\* No variable of the environment is set.
NoEnvironment == [name \in {} |-> Absent]

TargetOfBuildFirst ==
    \* the version of the build taken before the directives
    OrElse(BOTPRESS_VERSION,
           OrElse(ValueOf(env, "TESTMIG_BP_VERSION"), MIGRATE_TARGET))

\* constructor, line 67: the target version.
TargetOfConstructor ==
    OrElse(MIGRATE_TARGET,
           OrElse(ValueOf(env, "TESTMIG_BP_VERSION"), BOTPRESS_VERSION))

\* State of a freshly constructed service in a fresh process.
Constructed ==
    /\ targetVersion = TargetOfConstructor
    /\ logger = {}
    /\ coreMigrationCompleted = FALSE
    /\ configVersion = NoVersion
    /\ dbVersion = NoVersion
    /\ loadedMigrations = <<>>
    /\ pc = "start"
    /\ allMigrations = <<>>
    /\ migrationsToExecute = <<>>
    /\ displayed = NothingDisplayed
    /\ cursor = 0
    /\ hasFailures = FALSE
    /\ calls = <<>>
    /\ cacheCleared = FALSE

\* ----------------------------------------------------------------- actions

\* getAllMigrations, lines 286-290: the file whose module is loaded under a
\* file name is the first file of that name in the list.
FirstNamed(migrations, filename) ==
    LET i == CHOOSE k \in 1..Len(migrations) :
                 /\ migrations[k].filename = filename
                 /\ \A l \in 1..(k - 1) : migrations[l].filename # filename
    IN  migrations[i]

\* require(file.location).default
Require(d, location) == ModuleOf(d[location])

\* initialize, line 76: getAllMigrations lists the files and loads the
\* module of every file name not loaded yet.
GetAllMigrations ==
    /\ pc = "start"
    /\ LET migrations == ListedMigrations(disk)
       IN  /\ allMigrations' = migrations
           /\ loadedMigrations' =
                 [fn \in DOMAIN loadedMigrations \cup FileNames(migrations) |->
                     IF fn \in DOMAIN loadedMigrations
                     THEN loadedMigrations[fn]
                     ELSE Require(disk, FirstNamed(migrations, fn).location)]
    /\ pc' = "detect"
    /\ UNCHANGED <<repository, disk, faults, directives, durable, targetVersion, configVersion,
                   dbVersion, migrationsToExecute, displayed, cursor,
                   hasFailures, observed, runs>>

\* _getCurrentDbVersion given the config version read just before.
GetCurrentDbVersion(config) ==
    IF srv_metadata = <<>> THEN config ELSE srv_metadata[Len(srv_metadata)]

\* detectAndSetupVersions, line 133: a target is given and is no version.
TargetIsInvalid ==
    MIGRATE_TARGET # Absent /\ SemverValid(MIGRATE_TARGET) = NoVersion

\* detectAndSetupVersions, line 141.
TestAllOrNew == DOMAIN core_env \cap {"TESTMIG_ALL", "TESTMIG_NEW"} # {}

\* semver.compare throws a TypeError on a null version; sort calls it once
\* there are two versions to order.
SortThrows(migrations) ==
    /\ Len(migrations) >= 2
    /\ \E i \in 1..Len(migrations) : migrations[i].version = NoVersion

\* _.last(migrations.map(x => x.version).sort(semver.compare)): undefined
\* for no migration.
LastVersion(migrations) ==
    IF migrations = <<>> THEN NoVersion
    ELSE IF Len(migrations) = 1 THEN migrations[1].version
    ELSE LET versions == {migrations[i].version : i \in 1..Len(migrations)}
         IN  CHOOSE v \in versions : \A w \in versions : SemverLte(w, v)

\* The literal '12.0.0' of line 145.
TestConfigVersion == <<12, 0, 0>>

InvalidTargetError ==
    "A target version was specified but the format is invalid"

\* initialize, line 77: detectAndSetupVersions.
DetectAndSetupVersions ==
    /\ pc = "detect"
    /\ IF TargetIsInvalid
       THEN /\ logger' = logger \cup {InvalidTargetError}
            /\ pc' = "exited"
            /\ UNCHANGED <<targetVersion, configVersion, dbVersion>>
       ELSE LET config == OrElse(ValueOf(env, "TESTMIG_CONFIG_VERSION"),
                                 botpressConfig)
                db == OrElse(ValueOf(env, "TESTMIG_DB_VERSION"),
                             GetCurrentDbVersion(config))
            IN  /\ dbVersion' = db
                /\ UNCHANGED logger
                /\ IF ~TestAllOrNew
                   THEN /\ configVersion' = config
                        /\ pc' = "plan"
                        /\ UNCHANGED targetVersion
                   ELSE IF SortThrows(allMigrations)
                   THEN /\ configVersion' = config
                        /\ pc' = "rejected"
                        /\ UNCHANGED targetVersion
                   ELSE /\ targetVersion' = LastVersion(allMigrations)
                        /\ configVersion' =
                              IF Yn(ValueOf(core_env, "TESTMIG_NEW"))
                              THEN BOTPRESS_VERSION ELSE TestConfigVersion
                        /\ pc' = "plan"
    /\ UNCHANGED <<repository, disk, faults, directives, durable, loadedMigrations,
                   locals, calls, cacheCleared, coreMigrationCompleted, runs>>

\* getMigrationsToExecute on the state of the service.
GetMigrationsToExecuteOf(all) ==
    PlanOf(all, dbVersion, configVersion, targetVersion, loadedMigrations, IsDown)

\* initialize, line 79.
GetMigrationsToExecute ==
    /\ pc = "plan"
    /\ migrationsToExecute' = GetMigrationsToExecuteOf(allMigrations)
    /\ pc' = "planned"
    /\ UNCHANGED <<repository, disk, faults, directives, durable, service, allMigrations,
                   displayed, cursor, hasFailures, observed, runs>>

\* displayMigrationStatus: the descriptions of the planned migrations,
\* grouped under the three type headings.
DescriptionsOfType(missingMigrations, type) ==
    LET ofType == SelectSeq(missingMigrations, LAMBDA x :
                      loadedMigrations[x.filename].type = type)
    IN  [i \in 1..Len(ofType) |-> ofType[i].filename]

DisplayMigrationStatus(missingMigrations) ==
    [shown  |-> TRUE,
     dryRun |-> MIGRATE_DRYRUN,
     groups |-> [type \in MigrationTypes |->
                    DescriptionsOfType(missingMigrations, type)]]

\* initialize, lines 80-82: nothing to execute and no migrate command.
ReturnNothingToDo ==
    /\ pc = "planned"
    /\ migrationsToExecute = <<>>
    /\ MIGRATE_CMD = Undefined
    /\ pc' = "returned"
    /\ UNCHANGED <<repository, disk, faults, directives, durable, service, locals, observed, runs>>

DisplayAlways ==
    \* the early return of lines 80-82 left out
    /\ pc = "planned"
    /\ displayed' = DisplayMigrationStatus(migrationsToExecute)
    /\ pc' = "displayed"
    /\ UNCHANGED <<repository, disk, faults, directives, durable, service, allMigrations,
                   migrationsToExecute, cursor, hasFailures, observed, runs>>

\* initialize, lines 84-89.
Display ==
    /\ pc = "planned"
    /\ ~(migrationsToExecute = <<>> /\ MIGRATE_CMD = Undefined)
    /\ displayed' = DisplayMigrationStatus(migrationsToExecute)
    /\ pc' = "displayed"
    /\ UNCHANGED <<repository, disk, faults, directives, durable, service, allMigrations,
                   migrationsToExecute, cursor, hasFailures, observed, runs>>

\* initialize, lines 91-93.
DryRunExit ==
    /\ pc = "displayed"
    /\ MIGRATE_DRYRUN
    /\ pc' = "exited"
    /\ UNCHANGED <<repository, disk, faults, directives, durable, service, locals, observed, runs>>

\* initialize, lines 95-106: migrations are needed and --auto-migrate is
\* not given.
NeedsToMigrateError == "Botpress needs to migrate your data"

NotApproved ==
    /\ pc = "displayed"
    /\ ~MIGRATE_DRYRUN
    /\ ~AUTO_MIGRATE
    /\ logger' = logger \cup {NeedsToMigrateError}
    /\ pc' = IF IS_FAILSAFE THEN "returned" ELSE "exited"
    /\ UNCHANGED <<repository, disk, faults, directives, durable, service, locals, calls,
                   cacheCleared, coreMigrationCompleted, runs>>

CouldNotClearCache == "Could not clear cache"

ExecuteMigrationsStartInDryRun ==
    \* the dry run not ending the process before the migrations are executed
    /\ pc = "displayed"
    /\ AUTO_MIGRATE
    /\ hasFailures' = FALSE
    /\ IF "cache" \in faults
       THEN /\ logger' = logger \cup {CouldNotClearCache}
            /\ UNCHANGED cacheCleared
       ELSE /\ cacheCleared' = TRUE
            /\ UNCHANGED logger
    /\ cursor' = 0
    /\ pc' = "units"
    /\ UNCHANGED <<repository, disk, faults, directives, durable, service, allMigrations,
                   migrationsToExecute, displayed, calls,
                   coreMigrationCompleted, runs>>

ExecuteMigrationsStartUnapproved ==
    \* the migrations executed without --auto-migrate
    /\ pc = "displayed"
    /\ ~MIGRATE_DRYRUN
    /\ hasFailures' = FALSE
    /\ IF "cache" \in faults
       THEN /\ logger' = logger \cup {CouldNotClearCache}
            /\ UNCHANGED cacheCleared
       ELSE /\ cacheCleared' = TRUE
            /\ UNCHANGED logger
    /\ cursor' = 0
    /\ pc' = "units"
    /\ UNCHANGED <<repository, disk, faults, directives, durable, service, allMigrations,
                   migrationsToExecute, displayed, calls,
                   coreMigrationCompleted, runs>>

ExecuteMigrationsStartUncaught ==
    \* the removal of the cache directory outside any try
    /\ pc = "displayed"
    /\ ~MIGRATE_DRYRUN
    /\ AUTO_MIGRATE
    /\ hasFailures' = FALSE
    /\ IF "cache" \in faults
       THEN /\ pc' = "rejected"
            /\ UNCHANGED cacheCleared
       ELSE /\ cacheCleared' = TRUE
            /\ pc' = "units"
    /\ cursor' = 0
    /\ UNCHANGED <<repository, disk, faults, directives, durable, service, allMigrations,
                   migrationsToExecute, displayed, calls, logger,
                   coreMigrationCompleted, runs>>

\* initialize, line 108, and executeMigrations, lines 176-195: the cache
\* directory is removed before the first migration; when its removal
\* throws, the warning is logged and the migrations are executed.
ExecuteMigrationsStart ==
    /\ pc = "displayed"
    /\ ~MIGRATE_DRYRUN
    /\ AUTO_MIGRATE
    /\ hasFailures' = FALSE
    /\ IF "cache" \in faults
       THEN /\ logger' = logger \cup {CouldNotClearCache}
            /\ UNCHANGED cacheCleared
       ELSE /\ cacheCleared' = TRUE
            /\ UNCHANGED logger
    /\ cursor' = 0
    /\ pc' = "units"
    /\ UNCHANGED <<repository, disk, faults, directives, durable, service, allMigrations,
                   migrationsToExecute, displayed, calls,
                   coreMigrationCompleted, runs>>

\* What a handler does when it is called: it resolves with success true,
\* resolves with success false, or rejects.
HandlerOutcomes == {"success", "failure", "throw"}

DirectionCalledUp(content, isDown) ==
    \* the up handler called whatever the direction
    "up"

\* The direction executeMigrations calls the loaded module in (lines
\* 205-209); "none" leaves result undefined.
DirectionCalled(content, isDown) ==
    IF isDown /\ content.down THEN "down"
    ELSE IF ~isDown THEN "up"
    ELSE "none"

\* The characters of the model's strings are the titles; 0 is the comma.
Comma == 0

\* s.split(','), line 198.
RECURSIVE Split(_)
Split(s) ==
    IF \A i \in 1..Len(s) : s[i] # Comma THEN <<s>>
    ELSE LET i == CHOOSE k \in 1..Len(s) :
                      s[k] = Comma /\ \A l \in 1..(k - 1) : s[l] # Comma
         IN  <<SubSeq(s, 1, i - 1)>> \o Split(SubSeq(s, i + 1, Len(s)))

\* The part of a file name the strings of the ignore list, made of title
\* characters, can be found in: its title.
NameText(filename) == <<TitleOf(filename)>>

\* text.includes(x).
Includes(text, x) ==
    \E i \in 0..(Len(text) - Len(x)) : SubSeq(text, i + 1, i + Len(x)) = x

IsIgnoredNever(filename) ==
    \* the ignore list not looked at
    FALSE

\* executeMigrations, line 198: some string of TESTMIG_IGNORE_LIST is found
\* in the file name.
IsIgnored(filename) ==
    /\ "TESTMIG_IGNORE_LIST" \in DOMAIN env
    /\ LET list == Split(env["TESTMIG_IGNORE_LIST"])
       IN  \E i \in 1..Len(list) : Includes(NameText(filename), list[i])

\* The callbacks whose handler has been called and has not settled.
HandlersInFlight == {i \in 1..Len(calls) : calls[i].outcome = "running"}

MapCallsNext ==
    \* Promise.map: the next callback does not wait for the one before
    TRUE

\* Promise.mapSeries calls back for the next item once the promise of the
\* callback before it has resolved.
MapSeriesCallsNext == HandlersInFlight = {}

\* executeMigrations, lines 197-209: Promise.mapSeries calls back for the
\* next migration of the list.  An ignored file is logged as skipped and
\* the callback returns; otherwise the handler of the direction is called.
RunMigration ==
    /\ pc = "units"
    /\ cursor < Len(migrationsToExecute)
    /\ MapSeriesCallsNext
    /\ LET filename == migrationsToExecute[cursor + 1].filename
           dir == DirectionCalled(loadedMigrations[filename], IsDown)
       IN  IF IsIgnored(filename)
           THEN /\ calls' = Append(calls, [filename |-> filename,
                                           direction |-> "none",
                                           outcome |-> "skipped"])
                /\ cursor' = cursor + 1
                /\ UNCHANGED pc
           ELSE IF dir = "none"
           THEN \* no handler is called; result.success of undefined is a
                \* TypeError
                /\ calls' = Append(calls, [filename |-> filename,
                                           direction |-> dir,
                                           outcome |-> "TypeError"])
                /\ pc' = "rejected"
                /\ UNCHANGED cursor
           ELSE /\ calls' = Append(calls, [filename |-> filename,
                                           direction |-> dir,
                                           outcome |-> "running"])
                /\ cursor' = cursor + 1
                /\ UNCHANGED pc
    /\ UNCHANGED <<repository, disk, faults, directives, durable, service, allMigrations,
                   migrationsToExecute, displayed, hasFailures, cacheCleared,
                   logger, coreMigrationCompleted, runs>>

\* executeMigrations, lines 206-216: the handler settles and the callback
\* reads result.success.  A rejection of the handler rejects the callback,
\* mapSeries, executeMigrations and initialize.
HandlerSettles ==
    /\ pc = "units"
    /\ \E i \in HandlersInFlight, outcome \in HandlerOutcomes :
          /\ calls' = [calls EXCEPT ![i].outcome = outcome]
          /\ hasFailures' = (hasFailures \/ outcome = "failure")
          /\ pc' = IF outcome = "throw" THEN "rejected" ELSE "units"
    /\ UNCHANGED <<repository, disk, faults, directives, durable, service, allMigrations,
                   migrationsToExecute, displayed, cursor, cacheCleared,
                   logger, coreMigrationCompleted, runs>>

ExitsOnFailuresNever ==
    \* process.exit left out after the failures
    FALSE

\* executeMigrations, lines 219-227: the process ends here when a migration
\* failed and the failsafe is off.
ExitsOnFailures == hasFailures /\ ~IS_FAILSAFE

\* executeMigrations, lines 219-231, after the last migration.
ExecuteMigrationsEnd ==
    /\ pc = "units"
    /\ cursor = Len(migrationsToExecute)
    /\ HandlersInFlight = {}
    /\ IF ExitsOnFailures
       THEN /\ pc' = "exited"
            /\ UNCHANGED botpressConfig
       ELSE /\ botpressConfig' = targetVersion
            /\ pc' = "persist"
    /\ UNCHANGED <<repository, disk, faults, directives, srv_metadata, srv_migrations, service,
                   locals, observed, runs>>

MetadataInsertNever ==
    \* the srv_metadata row never written
    <<>>

\* persistMigrationStatus: the row written to srv_metadata, if any.
MetadataInsert ==
    IF dbVersion # targetVersion THEN <<targetVersion>> ELSE <<>>

CouldNotSaveLogs == "Couldn't save logs to database"

PersistMigrationStatusUncaught ==
    \* the insert into srv_migrations outside any try
    /\ pc = "persist"
    /\ IF "srv_migrations" \in faults
       THEN /\ pc' = "rejected"
            /\ UNCHANGED <<srv_migrations, srv_metadata,
                           coreMigrationCompleted>>
       ELSE /\ srv_migrations' = Append(srv_migrations,
                   [initialVersion |-> configVersion,
                    targetVersion |-> targetVersion])
            /\ IF MetadataInsert # <<>> /\ "srv_metadata" \in faults
               THEN /\ pc' = "rejected"
                    /\ UNCHANGED <<srv_metadata, coreMigrationCompleted>>
               ELSE /\ srv_metadata' = srv_metadata \o MetadataInsert
                    /\ coreMigrationCompleted' = TRUE
                    /\ pc' = IF MIGRATE_CMD # Undefined
                             THEN "exited" ELSE "returned"
    /\ UNCHANGED <<repository, disk, faults, directives, botpressConfig, service, locals,
                   calls, cacheCleared, logger, runs>>

\* initialize, lines 110-116: persistMigrationStatus, then the process ends
\* when it was started by a migrate command.  A rejected insert into
\* srv_migrations is caught and logged; a rejected insert into srv_metadata
\* rejects persistMigrationStatus and initialize.
PersistMigrationStatus ==
    /\ pc = "persist"
    /\ IF "srv_migrations" \in faults
       THEN /\ logger' = logger \cup {CouldNotSaveLogs}
            /\ UNCHANGED srv_migrations
       ELSE /\ srv_migrations' = Append(srv_migrations,
                   [initialVersion |-> configVersion,
                    targetVersion |-> targetVersion])
            /\ UNCHANGED logger
    /\ IF MetadataInsert # <<>> /\ "srv_metadata" \in faults
       THEN /\ pc' = "rejected"
            /\ UNCHANGED <<srv_metadata, coreMigrationCompleted>>
       ELSE /\ srv_metadata' = srv_metadata \o MetadataInsert
            /\ coreMigrationCompleted' = TRUE
            /\ pc' = IF MIGRATE_CMD # Undefined THEN "exited" ELSE "returned"
    /\ UNCHANGED <<repository, disk, faults, directives, botpressConfig, service, locals,
                   calls, cacheCleared, runs>>

\* The process is over: process.exit was called, initialize returned to the
\* host or initialize rejected.
Over == pc \in {"exited", "returned", "rejected"}

\* The same command is started again on the same disk and durable state.
Restart ==
    /\ Over
    /\ runNo < MaxRuns
    /\ history' = Append(history,
           [end |-> pc, plan |-> migrationsToExecute, calls |-> calls,
            hasFailures |-> hasFailures, pre |-> pre])
    /\ runNo' = runNo + 1
    /\ pre' = Durable
    /\ configVersion' = NoVersion
    /\ dbVersion' = NoVersion
    /\ loadedMigrations' = <<>>
    /\ pc' = "start"
    /\ allMigrations' = <<>>
    /\ migrationsToExecute' = <<>>
    /\ displayed' = NothingDisplayed
    /\ cursor' = 0
    /\ hasFailures' = FALSE
    /\ calls' = <<>>
    /\ cacheCleared' = FALSE
    /\ logger' = {}
    /\ coreMigrationCompleted' = FALSE
    /\ targetVersion' = TargetOfConstructor
    /\ UNCHANGED <<repository, disk, faults, directives, durable>>

\* ------------------------------------------------------ message repository

MessageIds == 1..MaxMessages
Conversations == 1..MaxConversations
Callers == 1..MaxCallers

\* A caller with no call in flight.
Idle == [pc |-> "idle", arg |-> 0, rows |-> {}, late |-> FALSE]

\* The repository is constructed and the table is empty.
RepositoryUnused ==
    /\ messages = <<>>
    /\ cache = {}
    /\ requests = [c \in Callers |-> Idle]
    /\ deleted = {}
    /\ returned = {}

\* Every variable of the migration service.
migration == <<disk, faults, directives, durable, service, locals, observed,
               pc, runs>>

\* The ids of the rows that match where(filter).
RowsWhereId(messageId) == {id \in DOMAIN messages : id = messageId}
RowsWhereConversation(conversationId) ==
    {id \in DOMAIN messages : messages[id] = conversationId}

\* del() on the rows of the given ids.
Del(ids) == [id \in DOMAIN messages \ ids |-> messages[id]]

\* _localInvalidateMsgCache, lines 155-157.
LocalInvalidateMsgCache(ids) == cache \ ids

\* What a call of get returns: the message of the id or undefined, and
\* whether the call was made after a delete of the id had returned.
Result(request, found) ==
    [messageId |-> request.arg, late |-> request.late, found |-> found]

\* get, lines 95-98: the call; a cached message is returned at once.
Get(c, messageId) ==
    /\ requests[c].pc = "idle"
    /\ LET request == [pc |-> "select", arg |-> messageId, rows |-> {},
                       late |-> messageId \in deleted]
       IN  IF messageId \in cache
           THEN /\ returned' = returned \cup {Result(request, TRUE)}
                /\ UNCHANGED requests
           ELSE /\ requests' = [requests EXCEPT ![c] = request]
                /\ UNCHANGED returned
    /\ UNCHANGED <<messages, cache, deleted, migration>>

\* get, lines 100-102: the database executes the select.
GetSelect(c) ==
    /\ requests[c].pc = "select"
    /\ requests' = [requests EXCEPT ![c].pc = "selected",
                                    ![c].rows = RowsWhereId(requests[c].arg)]
    /\ UNCHANGED <<messages, cache, deleted, returned, migration>>

\* get, lines 104-109: the await resolves; the message read is cached and
\* returned.
GetResolve(c) ==
    /\ requests[c].pc = "selected"
    /\ IF requests[c].rows # {}
       THEN /\ cache' = cache \cup {requests[c].arg}
            /\ returned' = returned \cup {Result(requests[c], TRUE)}
       ELSE /\ returned' = returned \cup {Result(requests[c], FALSE)}
            /\ UNCHANGED cache
    /\ requests' = [requests EXCEPT ![c] = Idle]
    /\ UNCHANGED <<messages, deleted, migration>>

\* delete, lines 113-115: the call, and the database executing the del.
Delete(c, messageId) ==
    /\ requests[c].pc = "idle"
    /\ messages' = Del(RowsWhereId(messageId))
    /\ requests' = [requests EXCEPT ![c] =
           [pc |-> "deleted", arg |-> messageId, rows |-> {messageId},
            late |-> FALSE]]
    /\ UNCHANGED <<cache, deleted, returned, migration>>

\* delete, lines 117-119: the await resolves; the id is invalidated and
\* delete returns.
DeleteResolve(c) ==
    /\ requests[c].pc = "deleted"
    /\ cache' = LocalInvalidateMsgCache(requests[c].rows)
    /\ deleted' = deleted \cup requests[c].rows
    /\ requests' = [requests EXCEPT ![c] = Idle]
    /\ UNCHANGED <<messages, returned, migration>>

\* deleteAll, lines 55-59: the call, and the database executing the select
\* of the ids.
DeleteAll(c, conversationId) ==
    /\ requests[c].pc = "idle"
    /\ requests' = [requests EXCEPT ![c] =
           [pc |-> "ids", arg |-> conversationId,
            rows |-> RowsWhereConversation(conversationId), late |-> FALSE]]
    /\ UNCHANGED <<messages, cache, deleted, returned, migration>>

\* deleteAll, lines 61-64 and 69: the await resolves; with no id deleteAll
\* returns, otherwise the database executes the del of the conversation.
DeleteAllDel(c) ==
    /\ requests[c].pc = "ids"
    /\ IF requests[c].rows = {}
       THEN /\ requests' = [requests EXCEPT ![c] = Idle]
            /\ UNCHANGED messages
       ELSE /\ messages' = Del(RowsWhereConversation(requests[c].arg))
            /\ requests' = [requests EXCEPT ![c].pc = "deletedAll"]
    /\ UNCHANGED <<cache, deleted, returned, migration>>

\* deleteAll, lines 66-69: the await resolves; the ids are invalidated and
\* deleteAll returns.
DeleteAllResolve(c) ==
    /\ requests[c].pc = "deletedAll"
    /\ cache' = LocalInvalidateMsgCache(requests[c].rows)
    /\ deleted' = deleted \cup requests[c].rows
    /\ requests' = [requests EXCEPT ![c] = Idle]
    /\ UNCHANGED <<messages, returned, migration>>

\* The LRU drops an entry: it is older than maxAge or the least recently
\* used of more than max entries (line 23).
CacheDrops(messageId) ==
    /\ messageId \in cache
    /\ cache' = cache \ {messageId}
    /\ UNCHANGED <<messages, requests, deleted, returned, migration>>

\* ---------------------------------------------------------- specifications

\* Planning only: every disk, every marker, every target, every command.
InitPlan ==
    /\ disk \in Disks
    /\ MIGRATE_CMD \in {Undefined, "up", "down"}
    /\ MIGRATE_DRYRUN = FALSE
    /\ AUTO_MIGRATE = FALSE
    /\ IS_FAILSAFE = FALSE
    /\ MIGRATE_TARGET = Absent
    /\ BOTPRESS_VERSION \in Versions
    /\ env = NoEnvironment
    /\ core_env = NoEnvironment
    /\ faults = {}
    /\ botpressConfig \in Versions
    /\ srv_metadata \in {<<>>} \cup {<<v>> : v \in Versions}
    /\ srv_migrations = <<>>
    /\ runNo = 1
    /\ pre = Durable
    /\ history = <<>>
    /\ Constructed
    /\ RepositoryUnused

NextPlan ==
    \/ GetAllMigrations
    \/ DetectAndSetupVersions
    \/ GetMigrationsToExecute

SpecPlan == InitPlan /\ [][NextPlan]_vars

\* The disks whose files carry distinct, increasing timestamps.
RunDisks == {d \in Disks : \A t \in DOMAIN d : d[t].timestamp = t}

\* Whole runs: every directive, files with distinct timestamps.
Init ==
    /\ disk \in RunDisks
    /\ MIGRATE_CMD \in {Undefined, "up", "down"}
    /\ MIGRATE_DRYRUN \in BOOLEAN
    /\ AUTO_MIGRATE \in BOOLEAN
    /\ IS_FAILSAFE \in BOOLEAN
    /\ MIGRATE_TARGET = Absent
    /\ BOTPRESS_VERSION \in Versions
    /\ env = NoEnvironment
    /\ core_env = NoEnvironment
    /\ faults = {}
    /\ botpressConfig \in Versions
    /\ srv_metadata \in {<<>>} \cup {<<v>> : v \in Versions}
    /\ srv_migrations = <<>>
    /\ runNo = 1
    /\ pre = Durable
    /\ history = <<>>
    /\ Constructed
    /\ RepositoryUnused

Next ==
    \/ GetAllMigrations
    \/ DetectAndSetupVersions
    \/ GetMigrationsToExecute
    \/ ReturnNothingToDo
    \/ Display
    \/ DryRunExit
    \/ NotApproved
    \/ ExecuteMigrationsStart
    \/ RunMigration
    \/ HandlerSettles
    \/ ExecuteMigrationsEnd
    \/ PersistMigrationStatus

Spec == Init /\ [][Next]_vars

\* Approved runs of the same command, one after the other.
InitRerun ==
    /\ Init
    /\ ~MIGRATE_DRYRUN
    /\ AUTO_MIGRATE

NextRerun ==
    \/ GetAllMigrations
    \/ DetectAndSetupVersions
    \/ GetMigrationsToExecute
    \/ ReturnNothingToDo
    \/ Display
    \/ ExecuteMigrationsStart
    \/ RunMigration
    \/ HandlerSettles
    \/ ExecuteMigrationsEnd
    \/ PersistMigrationStatus
    \/ Restart

SpecRerun == InitRerun /\ [][NextRerun]_vars

\* Longer plans: up to MaxBatch database migrations, each with a down
\* handler, all of the same timestamp (the stable sort keeps them in
\* listing order).
BatchDisks ==
    UNION {[1..n -> {f \in CoreFiles : /\ f.type = "database"
                                       /\ f.hasDown
                                       /\ f.timestamp = 1}]
           : n \in 0..MaxBatch}

InitBatch ==
    /\ disk \in BatchDisks
    /\ MIGRATE_CMD \in {Undefined, "up", "down"}
    /\ MIGRATE_DRYRUN \in BOOLEAN
    /\ AUTO_MIGRATE \in BOOLEAN
    /\ IS_FAILSAFE \in BOOLEAN
    /\ MIGRATE_TARGET = Absent
    /\ BOTPRESS_VERSION \in Versions
    /\ env = NoEnvironment
    /\ core_env = NoEnvironment
    /\ faults = {}
    /\ botpressConfig \in Versions
    /\ srv_metadata \in {<<>>} \cup {<<v>> : v \in Versions}
    /\ srv_migrations = <<>>
    /\ runNo = 1
    /\ pre = Durable
    /\ history = <<>>
    /\ Constructed
    /\ RepositoryUnused

SpecBatch == InitBatch /\ [][Next]_vars

\* Database migrations of the core with both handlers and with distinct,
\* increasing timestamps.
PlainDisks ==
    {d \in RunDisks : \A t \in DOMAIN d : d[t].type = "database" /\ d[t].hasDown}

\* The environments that set the one variable to one of the values.
Setting(name, values) == {[n \in {name} |-> v] : v \in values}

\* Whole runs under every way of giving the target: MIGRATE_TARGET absent,
\* no version or a version, TESTMIG_BP_VERSION not set, empty or a version,
\* TESTMIG_ALL and TESTMIG_NEW.
InitTarget ==
    /\ disk \in PlainDisks
    /\ MIGRATE_CMD \in {Undefined, "up", "down"}
    /\ MIGRATE_DRYRUN \in BOOLEAN
    /\ AUTO_MIGRATE \in BOOLEAN
    /\ IS_FAILSAFE = FALSE
    /\ MIGRATE_TARGET \in {Absent, NotAVersion} \cup Versions
    /\ BOTPRESS_VERSION \in Versions
    /\ env \in {NoEnvironment}
                 \cup Setting("TESTMIG_BP_VERSION", Versions \cup {Absent})
    /\ core_env \in {NoEnvironment} \cup Setting("TESTMIG_ALL", {"true"})
                      \cup Setting("TESTMIG_NEW", {"true", "false"})
    /\ faults = {}
    /\ botpressConfig \in Versions
    /\ srv_metadata = <<>>
    /\ srv_migrations = <<>>
    /\ runNo = 1
    /\ pre = Durable
    /\ history = <<>>
    /\ Constructed
    /\ RepositoryUnused

SpecTarget == InitTarget /\ [][Next]_vars

\* Migrations of the core of every type, with both handlers and with
\* distinct, increasing timestamps.
TypedDisks == {d \in RunDisks : \A t \in DOMAIN d : d[t].hasDown}

Tables == {"srv_migrations", "srv_metadata"}

\* Whole runs on a database that rejects the inserts into some tables.
InitPersist ==
    /\ disk \in TypedDisks
    /\ MIGRATE_CMD \in {Undefined, "up", "down"}
    /\ MIGRATE_DRYRUN \in BOOLEAN
    /\ AUTO_MIGRATE \in BOOLEAN
    /\ IS_FAILSAFE \in BOOLEAN
    /\ MIGRATE_TARGET = Absent
    /\ BOTPRESS_VERSION \in Versions
    /\ env = NoEnvironment
    /\ core_env = NoEnvironment
    /\ faults \in SUBSET Tables
    /\ botpressConfig \in Versions
    /\ srv_metadata \in {<<>>} \cup {<<v>> : v \in Versions}
    /\ srv_migrations = <<>>
    /\ runNo = 1
    /\ pre = Durable
    /\ history = <<>>
    /\ Constructed
    /\ RepositoryUnused

SpecPersist == InitPersist /\ [][Next]_vars

\* The values of TESTMIG_IGNORE_LIST: the strings of commas and title
\* characters, the empty string among them.
IgnoreLists ==
    UNION {[1..n -> {Comma} \cup Titles] : n \in 0..MaxListLen}

\* Whole runs with TESTMIG_IGNORE_LIST not set or set.
InitIgnore ==
    /\ disk \in PlainDisks
    /\ MIGRATE_CMD \in {Undefined, "up", "down"}
    /\ MIGRATE_DRYRUN \in BOOLEAN
    /\ AUTO_MIGRATE \in BOOLEAN
    /\ IS_FAILSAFE \in BOOLEAN
    /\ MIGRATE_TARGET = Absent
    /\ BOTPRESS_VERSION \in Versions
    /\ env \in {NoEnvironment} \cup Setting("TESTMIG_IGNORE_LIST", IgnoreLists)
    /\ core_env = NoEnvironment
    /\ faults = {}
    /\ botpressConfig \in Versions
    /\ srv_metadata = <<>>
    /\ srv_migrations = <<>>
    /\ runNo = 1
    /\ pre = Durable
    /\ history = <<>>
    /\ Constructed
    /\ RepositoryUnused

SpecIgnore == InitIgnore /\ [][Next]_vars

\* Database migrations with both handlers, of the core and of the modules,
\* with any timestamps and with names that start with a version or not.
DiscoveryDisks ==
    UNION {[1..n -> {f \in DiskFiles : f.type = "database" /\ f.hasDown}]
           : n \in 0..MaxUnits}

\* Whole runs on the migrations of several directories, with and without
\* TESTMIG_ALL.
InitDiscovery ==
    /\ disk \in DiscoveryDisks
    /\ MIGRATE_CMD \in {Undefined, "up", "down"}
    /\ MIGRATE_DRYRUN \in BOOLEAN
    /\ AUTO_MIGRATE \in BOOLEAN
    /\ IS_FAILSAFE \in BOOLEAN
    /\ MIGRATE_TARGET = Absent
    /\ BOTPRESS_VERSION \in Versions
    /\ env = NoEnvironment
    /\ core_env \in {NoEnvironment} \cup Setting("TESTMIG_ALL", {"true"})
    /\ faults = {}
    /\ botpressConfig \in Versions
    /\ srv_metadata = <<>>
    /\ srv_migrations = <<>>
    /\ runNo = 1
    /\ pre = Durable
    /\ history = <<>>
    /\ Constructed
    /\ RepositoryUnused

SpecDiscovery == InitDiscovery /\ [][Next]_vars

\* Whole runs in which the removal of the cache directory succeeds or
\* throws.
InitCache ==
    /\ disk \in PlainDisks
    /\ MIGRATE_CMD \in {Undefined, "up", "down"}
    /\ MIGRATE_DRYRUN \in BOOLEAN
    /\ AUTO_MIGRATE \in BOOLEAN
    /\ IS_FAILSAFE \in BOOLEAN
    /\ MIGRATE_TARGET = Absent
    /\ BOTPRESS_VERSION \in Versions
    /\ env = NoEnvironment
    /\ core_env = NoEnvironment
    /\ faults \in SUBSET {"cache"}
    /\ botpressConfig \in Versions
    /\ srv_metadata \in {<<>>} \cup {<<v>> : v \in Versions}
    /\ srv_migrations = <<>>
    /\ runNo = 1
    /\ pre = Durable
    /\ history = <<>>
    /\ Constructed
    /\ RepositoryUnused

SpecCache == InitCache /\ [][Next]_vars

\* Database migrations of the core and of the modules, all of the same
\* timestamp, with titles of their own: two files may have the same name.
NamedDisks ==
    UNION {[1..n -> [rawVersion : Versions, timestamp : {1},
                     type : {"database"}, hasDown : BOOLEAN, root : Roots,
                     title : Titles]]
           : n \in 0..MaxUnits}

\* Whole runs on disks where file names may coincide.
InitNames ==
    /\ disk \in NamedDisks
    /\ MIGRATE_CMD \in {Undefined, "up", "down"}
    /\ MIGRATE_DRYRUN \in BOOLEAN
    /\ AUTO_MIGRATE \in BOOLEAN
    /\ IS_FAILSAFE \in BOOLEAN
    /\ MIGRATE_TARGET = Absent
    /\ BOTPRESS_VERSION \in Versions
    /\ env = NoEnvironment
    /\ core_env = NoEnvironment
    /\ faults = {}
    /\ botpressConfig \in Versions
    /\ srv_metadata = <<>>
    /\ srv_migrations = <<>>
    /\ runNo = 1
    /\ pre = Durable
    /\ history = <<>>
    /\ Constructed
    /\ RepositoryUnused

SpecNames == InitNames /\ [][Next]_vars

\* The tables of messages: some of the ids, each in a conversation.
MessageTables == UNION {[ids -> Conversations] : ids \in SUBSET MessageIds}

\* The message repository on any table of messages, the cache empty, next
\* to a migration service with nothing to migrate.
InitRepository ==
    /\ messages \in MessageTables
    /\ cache = {}
    /\ requests = [c \in Callers |-> Idle]
    /\ deleted = {}
    /\ returned = {}
    /\ disk = <<>>
    /\ MIGRATE_CMD = Undefined
    /\ MIGRATE_DRYRUN = FALSE
    /\ AUTO_MIGRATE = FALSE
    /\ IS_FAILSAFE = FALSE
    /\ MIGRATE_TARGET = Absent
    /\ BOTPRESS_VERSION = VersionOf(0)
    /\ env = NoEnvironment
    /\ core_env = NoEnvironment
    /\ faults = {}
    /\ botpressConfig = VersionOf(0)
    /\ srv_metadata = <<>>
    /\ srv_migrations = <<>>
    /\ runNo = 1
    /\ pre = Durable
    /\ history = <<>>
    /\ Constructed

NextRepository ==
    \/ \E c \in Callers, messageId \in MessageIds : Get(c, messageId)
    \/ \E c \in Callers : GetSelect(c)
    \/ \E c \in Callers : GetResolve(c)
    \/ \E c \in Callers, messageId \in MessageIds : Delete(c, messageId)
    \/ \E c \in Callers : DeleteResolve(c)
    \/ \E c \in Callers, conversationId \in Conversations :
           DeleteAll(c, conversationId)
    \/ \E c \in Callers : DeleteAllDel(c)
    \/ \E c \in Callers : DeleteAllResolve(c)
    \/ \E messageId \in MessageIds : CacheDrops(messageId)

SpecRepository == InitRepository /\ [][NextRepository]_vars

\* ------------------------------------------------- properties of the plan

\* A version as one number, for comparing versions in the properties.
Rank(v) == v[1] * 10000 + v[2] * 100 + v[3]

\* The type the loaded module of a planned unit declares.
TypeOfUnit(u) == loadedMigrations[u.filename].type

\* The current marker of the domain of a planned unit.
CurrentOf(u) == IF TypeOfUnit(u) = "database" THEN dbVersion ELSE configVersion

PlanIndexes == 1..Len(migrationsToExecute)

\* The place of a planned unit in the list getMigrationsToExecute was given.
PlaceInAll(u) == CHOOSE i \in 1..Len(allMigrations) : allMigrations[i] = u

InPlan(file) == \E i \in PlanIndexes : migrationsToExecute[i] = file

\* C1: every unit of the plan has its version in (current, target] in an
\* upgrade and in (target, current] in a downgrade, current being dbVersion
\* for a database unit and configVersion for a config or content unit.
C1_PlanWithinInterval ==
    pc = "planned" =>
        \A i \in PlanIndexes :
            LET u == migrationsToExecute[i]
            IN  /\ u.version # NoVersion
                /\ IF IsDown
                   THEN /\ Rank(targetVersion) < Rank(u.version)
                        /\ Rank(u.version) <= Rank(CurrentOf(u))
                   ELSE /\ Rank(CurrentOf(u)) < Rank(u.version)
                        /\ Rank(u.version) <= Rank(targetVersion)

\* An upgrade plan with a config unit and a database unit, the database
\* unit of a version the config marker has already passed.
C1_Witness ==
    /\ pc = "planned"
    /\ ~IsDown
    /\ \E i, j \in PlanIndexes :
          /\ TypeOfUnit(migrationsToExecute[i]) = "database"
          /\ TypeOfUnit(migrationsToExecute[j]) = "config"
          /\ Rank(migrationsToExecute[i].version) <= Rank(configVersion)

\* C2: when dbVersion = configVersion = targetVersion the plan is empty,
\* in both directions.
C2_EmptyPlanAtTarget ==
    (pc = "planned" /\ dbVersion = targetVersion /\ configVersion = targetVersion)
        => migrationsToExecute = <<>>

\* The markers are at the target and the disk holds a file of the target
\* version and a file of a later version.
C2_Witness ==
    /\ pc = "planned"
    /\ dbVersion = targetVersion
    /\ configVersion = targetVersion
    /\ \E i, j \in 1..Len(allMigrations) :
          /\ allMigrations[i].version = targetVersion
          /\ Rank(allMigrations[j].version) > Rank(targetVersion)
    /\ migrationsToExecute = <<>>

PlanSortedByDate ==
    \A i, j \in PlanIndexes :
        i < j => migrationsToExecute[i].date <= migrationsToExecute[j].date

\* C3 as stated: the plan is ordered by date ascending, and units of equal
\* date keep the relative order they have in the list given to
\* getMigrationsToExecute.
C3_TiesKeepInputOrder ==
    pc = "planned" =>
        /\ PlanSortedByDate
        /\ \A i, j \in PlanIndexes :
              (i < j /\ migrationsToExecute[i].date = migrationsToExecute[j].date)
                  => PlaceInAll(migrationsToExecute[i])
                         < PlaceInAll(migrationsToExecute[j])

TypeOrder(type) ==
    CASE type = "database" -> 1 [] type = "config" -> 2 [] type = "content" -> 3

\* C3 amended: the plan is ordered by date ascending in both directions;
\* units of equal date and of the same type keep their relative input
\* order, and units of equal date and of different types come database
\* first, then config, then content.
C3_TiesKeepOrderWithinType ==
    pc = "planned" =>
        /\ PlanSortedByDate
        /\ \A i, j \in PlanIndexes :
              (i < j /\ migrationsToExecute[i].date = migrationsToExecute[j].date)
                  => LET a == migrationsToExecute[i]
                         b == migrationsToExecute[j]
                     IN  IF TypeOfUnit(a) = TypeOfUnit(b)
                         THEN PlaceInAll(a) < PlaceInAll(b)
                         ELSE TypeOrder(TypeOfUnit(a)) < TypeOrder(TypeOfUnit(b))

\* A downgrade plan of two units of the same date and of different types,
\* in the other order than in the input, after a file with a later date was
\* listed first on disk.
C3_Witness ==
    /\ pc = "planned"
    /\ IsDown
    /\ Len(migrationsToExecute) = 2
    /\ migrationsToExecute[1].date = migrationsToExecute[2].date
    /\ PlaceInAll(migrationsToExecute[1]) > PlaceInAll(migrationsToExecute[2])

\* -------------------------------------------------- properties of the run

CallIndexes == 1..Len(calls)

\* The files on disk whose module has no down handler.
WithoutDown(filename) == ~disk[TitleOf(filename)].hasDown

\* C4: in a downgrade run no unit without a down handler is in the plan,
\* whatever its version; it is left out silently: no callback runs for it
\* and initialize is not rejected by a missing handler.
C4_NoDownNoPlace ==
    IsDown =>
        /\ \A i \in PlanIndexes : ~WithoutDown(migrationsToExecute[i].filename)
        /\ \A i \in CallIndexes :
              /\ ~WithoutDown(calls[i].filename)
              /\ calls[i].direction = "down"
              /\ calls[i].outcome # "TypeError"

\* A downgrade that has run a unit to success while a file of a version in
\* the downgrade range has no down handler.
C4_Witness ==
    /\ IsDown
    /\ pc = "persist"
    /\ calls # <<>>
    /\ \E i \in 1..Len(allMigrations) :
          /\ WithoutDown(allMigrations[i].filename)
          /\ Rank(allMigrations[i].version) > Rank(targetVersion)
          /\ Rank(allMigrations[i].version) <= Rank(configVersion)
          /\ Rank(allMigrations[i].version) <= Rank(dbVersion)


\* Some callback so far ended with the given outcome.
SomeCall(outcome) == \E i \in CallIndexes : calls[i].outcome = outcome

\* The callbacks run so far are those of the first units of the plan, in
\* plan order.
CallsFollowPlan ==
    /\ Len(calls) <= Len(migrationsToExecute)
    /\ \A i \in CallIndexes : calls[i].filename = migrationsToExecute[i].filename

AllUnitsAttempted == CallsFollowPlan /\ Len(calls) = Len(migrationsToExecute)

\* C5: once a unit has reported success false, the run is flagged as
\* failed, every later unit of the plan is still attempted in order, and
\* the process is ended only after the last unit of the plan.
C5_LaterUnitsAttempted ==
    SomeCall("failure") =>
        /\ hasFailures
        /\ CallsFollowPlan
        /\ Over => AllUnitsAttempted

\* C6: a handler that rejects is treated as the outcome success false: the
\* run is flagged as failed, initialize is not rejected and the remaining
\* units are still attempted.
C6_RaiseTreatedAsFailure ==
    SomeCall("throw") =>
        /\ hasFailures
        /\ pc # "rejected"
        /\ Over => AllUnitsAttempted

\* C7: when a unit has failed and the failsafe is off, the process exits
\* after the whole plan has been attempted and the run leaves the config
\* version and the srv_metadata rows as they were.
C7_StrictFailureExitsAfterPlan ==
    (Over /\ ~IS_FAILSAFE /\ SomeCall("failure")) =>
        /\ pc = "exited"
        /\ AllUnitsAttempted
        /\ botpressConfig = pre.config
        /\ srv_metadata = pre.metadata

\* The marker of a domain is as it was when the process started.
MarkerUnchanged(type) ==
    IF type = "database" THEN srv_metadata = pre.metadata
    ELSE botpressConfig = pre.config

\* C8: when a unit has failed and the failsafe is on, initialize returns to
\* the host (a process started by a migrate command exits at the end of
\* initialize in any case) and the marker of the domain of the failed unit
\* is as it was before the run.
C8_FailsafeKeepsMarker ==
    (Over /\ IS_FAILSAFE /\ SomeCall("failure") /\ ~SomeCall("throw")) =>
        /\ pc = "returned" \/ MIGRATE_CMD # Undefined
        /\ \A i \in CallIndexes :
              calls[i].outcome = "failure"
                  => MarkerUnchanged(disk[TitleOf(calls[i].filename)].type)

\* A finished run that was approved, was no dry run and in which every
\* planned unit reported success.
AllSucceeded(run) ==
    /\ AUTO_MIGRATE
    /\ ~MIGRATE_DRYRUN
    /\ run.end \in {"exited", "returned"}
    /\ Len(run.calls) = Len(run.plan)
    /\ \A i \in 1..Len(run.calls) : run.calls[i].outcome = "success"

MarkersAtTarget ==
    /\ botpressConfig = targetVersion
    /\ GetCurrentDbVersion(botpressConfig) = targetVersion

Planned == pc \notin {"start", "detect", "plan"}

SecondRunIdle ==
    /\ calls = <<>>
    /\ Planned => migrationsToExecute = <<>>

\* C9 as stated: after an approved run, not a dry run, in which every
\* planned unit reported success, both markers equal targetVersion, and the
\* next run of the same command plans nothing and calls no handler.
C9_SuccessfulRunConverges ==
    (history # <<>> /\ AllSucceeded(history[Len(history)])) =>
        /\ MarkersAtTarget
        /\ SecondRunIdle

\* C9 amended: the markers equal targetVersion after such a run when its
\* plan was not empty or a migrate command was given; after any such run
\* the next run of the same command plans nothing and calls no handler.
C9_ExecutedRunConverges ==
    (history # <<>> /\ AllSucceeded(history[Len(history)])) =>
        /\ (history[Len(history)].plan # <<>> \/ MIGRATE_CMD # Undefined)
              => MarkersAtTarget
        /\ SecondRunIdle

\* The second run has planned, after a first run of two units, one of them a
\* database unit, that all succeeded and moved both markers.
C9_Witness ==
    /\ runNo = 2
    /\ pc = "planned"
    /\ AllSucceeded(history[1])
    /\ Len(history[1].plan) = 2
    /\ \E i \in 1..2 : disk[TitleOf(history[1].plan[i].filename)].type = "database"
    /\ history[1].pre.config # botpressConfig
    /\ history[1].pre.metadata # srv_metadata

\* The plan of the command on the disk and the durable state the process
\* started with, whatever the other directives.
ExpectedPlan ==
    LET all == ListedMigrations(disk)
        db  == IF pre.metadata = <<>> THEN pre.config
               ELSE pre.metadata[Len(pre.metadata)]
    IN  PlanOf(all, db, pre.config, targetVersion,
               [fn \in FileNames(all) |-> ModuleOf(disk[TitleOf(fn)])], IsDown)

DisplayedNames ==
    UNION {{displayed.groups[type][i] : i \in 1..Len(displayed.groups[type])}
           : type \in MigrationTypes}

DisplayedCount ==
    Len(displayed.groups["database"]) + Len(displayed.groups["config"])
        + Len(displayed.groups["content"])

\* C10: in a dry run, whatever the other directives, no handler is called,
\* the cache is not cleared, no row is written and no marker changes; the
\* units displayed are those of the plan a run without the dry-run flag
\* executes on the same inputs.
C10_DryRunChangesNothing ==
    /\ MIGRATE_DRYRUN =>
          /\ calls = <<>>
          /\ ~cacheCleared
          /\ Durable = pre
          /\ pc \notin {"units", "persist", "rejected"}
    /\ displayed.shown =>
          /\ DisplayedNames = FileNames(ExpectedPlan)
          /\ DisplayedCount = Len(ExpectedPlan)
    /\ ~MIGRATE_DRYRUN =>
          /\ Len(calls) <= Len(ExpectedPlan)
          /\ \A i \in CallIndexes : calls[i].filename = ExpectedPlan[i].filename

\* A dry run, approved and with the failsafe on, has displayed a plan of
\* two units and ended the process.
C10_Witness ==
    /\ MIGRATE_DRYRUN
    /\ AUTO_MIGRATE
    /\ IS_FAILSAFE
    /\ pc = "exited"
    /\ displayed.shown
    /\ displayed.dryRun
    /\ Len(migrationsToExecute) = 2

\* C11: a run without --auto-migrate calls no handler, does not clear the
\* cache, writes no row and changes no marker; when its plan is not empty
\* and it is not a dry run (which ends the process before the approval is
\* looked at), it ends with the plan displayed and the error logged, by
\* process.exit when the failsafe is off and by initialize returning to the
\* host when it is on.
C11_NotApprovedChangesNothing ==
    ~AUTO_MIGRATE =>
        /\ calls = <<>>
        /\ ~cacheCleared
        /\ ~coreMigrationCompleted
        /\ Durable = pre
        /\ pc \notin {"units", "persist"}
        /\ (Over /\ ~MIGRATE_DRYRUN /\ migrationsToExecute # <<>>) =>
              /\ displayed.shown
              /\ DisplayedNames = FileNames(migrationsToExecute)
              /\ NeedsToMigrateError \in logger
              /\ pc = IF IS_FAILSAFE THEN "returned" ELSE "exited"

\* A run without --auto-migrate and with the failsafe on has returned to
\* the host with a plan of two units displayed.
C11_Witness ==
    /\ ~AUTO_MIGRATE
    /\ ~MIGRATE_DRYRUN
    /\ IS_FAILSAFE
    /\ pc = "returned"
    /\ Len(migrationsToExecute) = 2
    /\ displayed.shown

\* ----------------------------------------------- properties of the target

\* The target given is not absent and is no semantic version.
GivenTargetMalformed == MIGRATE_TARGET # Absent /\ Len(MIGRATE_TARGET) # 3

\* C12: in a run given a target that is no semantic version, no migration
\* descriptor is listed, no migration module is loaded, the cache is not
\* cleared, no handler is called and no marker or row is written, and the
\* run ends by process.exit.
C12_MalformedTargetAbortsFirst ==
    GivenTargetMalformed =>
        /\ allMigrations = <<>>
        /\ DOMAIN loadedMigrations = {}
        /\ ~cacheCleared
        /\ calls = <<>>
        /\ Durable = pre
        /\ Over => pc = "exited"

\* The target by the order of line 67, written out.
ResolvedTarget ==
    IF MIGRATE_TARGET # Absent THEN MIGRATE_TARGET
    ELSE IF "TESTMIG_BP_VERSION" \in DOMAIN env
            /\ env["TESTMIG_BP_VERSION"] # Absent
         THEN env["TESTMIG_BP_VERSION"]
    ELSE BOTPRESS_VERSION

\* detectAndSetupVersions has run to its end: it has not ended the process
\* at line 135 and has not been rejected by the sort of line 142.
VersionsDetected ==
    /\ pc \notin {"start", "detect"}
    /\ ~GivenTargetMalformed
    /\ ~SortThrows(allMigrations)

\* C16 as stated: at every point of the run the target version is
\* MIGRATE_TARGET when given, otherwise TESTMIG_BP_VERSION when given,
\* otherwise BOTPRESS_VERSION.
C16_TargetByPriority == targetVersion = ResolvedTarget

\* C16 amended: the target version is resolved in that order, except that
\* once detectAndSetupVersions has run with TESTMIG_ALL or TESTMIG_NEW set
\* it is the highest version of the listed migrations (none when nothing
\* is listed), whatever the three sources give.
C16_TargetByPriorityUnlessTestAll ==
    IF VersionsDetected /\ DOMAIN core_env # {}
    THEN /\ \A i \in 1..Len(allMigrations) :
               Rank(allMigrations[i].version) <= Rank(targetVersion)
         /\ IF allMigrations = <<>> THEN targetVersion = NoVersion
            ELSE \E i \in 1..Len(allMigrations) :
                     allMigrations[i].version = targetVersion
    ELSE targetVersion = ResolvedTarget

\* A run without MIGRATE_TARGET has planned a unit towards the version
\* TESTMIG_BP_VERSION names, which is not the version of the build.
C16_Witness ==
    /\ pc = "planned"
    /\ MIGRATE_TARGET = Absent
    /\ "TESTMIG_BP_VERSION" \in DOMAIN env
    /\ env["TESTMIG_BP_VERSION"] # BOTPRESS_VERSION
    /\ DOMAIN core_env = {}
    /\ targetVersion = env["TESTMIG_BP_VERSION"]
    /\ migrationsToExecute # <<>>

\* ------------------------------------------- properties of the recording

\* The domains whose marker is the config version.
ConfigDomains == {"config", "content"}

\* Some callback so far was for a unit of one of the types.
SomeCallOfType(types) ==
    \E i \in CallIndexes : disk[TitleOf(calls[i].filename)].type \in types

PlanCompleted ==
    /\ AUTO_MIGRATE
    /\ ~MIGRATE_DRYRUN
    /\ cacheCleared
    /\ AllUnitsAttempted
    /\ \A i \in CallIndexes : calls[i].outcome \in {"success", "failure"}
    /\ ~(hasFailures /\ ~IS_FAILSAFE)

RecordingOver == PlanCompleted /\ Over

\* C17: when the insert into srv_migrations is rejected, the warning is
\* logged and no row is written, and the run goes on as it does otherwise:
\* unless the insert into srv_metadata is rejected too, the markers are at
\* targetVersion, coreMigrationCompleted is called and the process ends as
\* after a recorded run, by initialize returning or, under a migrate
\* command, by process.exit.
C17_AuditFailureContained ==
    ("srv_migrations" \in faults /\ RecordingOver) =>
        /\ CouldNotSaveLogs \in logger
        /\ srv_migrations = pre.migrations
        /\ "srv_metadata" \notin faults =>
              /\ MarkersAtTarget
              /\ coreMigrationCompleted
              /\ pc = IF MIGRATE_CMD = Undefined THEN "returned" ELSE "exited"

\* The insert into srv_migrations was rejected, the warning is logged, the
\* srv_metadata row is written and initialize has returned.
C17_Witness ==
    /\ faults = {"srv_migrations"}
    /\ pc = "returned"
    /\ calls # <<>>
    /\ CouldNotSaveLogs \in logger
    /\ srv_metadata # pre.metadata
    /\ coreMigrationCompleted

\* C18: whichever inserts are rejected, the run that has reached
\* persistMigrationStatus ends as a recorded run does: initialize is not
\* rejected and coreMigrationCompleted is called.
C18_PersistenceFailureContained ==
    (faults # {} /\ RecordingOver) =>
        /\ pc # "rejected"
        /\ coreMigrationCompleted

\* ------------------------------------------- properties of the execution

\* The part of the string from a to b is one of the comma-separated strings
\* of the string: it holds no comma and ends at a comma or at an end of the
\* string on both sides.
IsListed(s, a, b) ==
    /\ a <= b + 1
    /\ \A k \in a..b : s[k] # Comma
    /\ a = 1 \/ s[a - 1] = Comma
    /\ b = Len(s) \/ s[b + 1] = Comma

\* The file name contains one of the comma-separated strings of
\* TESTMIG_IGNORE_LIST: the empty string or its title.
OnIgnoreList(filename) ==
    /\ "TESTMIG_IGNORE_LIST" \in DOMAIN env
    /\ LET s == env["TESTMIG_IGNORE_LIST"]
       IN  \E a \in 1..(Len(s) + 1), b \in 0..Len(s) :
               /\ IsListed(s, a, b)
               /\ SubSeq(s, a, b) \in {<<>>, <<TitleOf(filename)>>}

\* C14: a unit of the plan is skipped exactly when its file name contains
\* one of the comma-separated strings of TESTMIG_IGNORE_LIST; for a skipped
\* unit no handler is called, the run is flagged as failed only by a unit
\* that reported a failure, and the units after a skipped one are gone
\* through in plan order.
C14_IgnoredUnitsSkipped ==
    /\ \A i \in CallIndexes :
          /\ calls[i].outcome = "skipped" <=> OnIgnoreList(calls[i].filename)
          /\ calls[i].outcome = "skipped" => calls[i].direction = "none"
          /\ calls[i].outcome # "skipped" => calls[i].direction \in {"up", "down"}
    /\ hasFailures => SomeCall("failure")
    /\ CallsFollowPlan
    /\ (pc \in {"persist", "returned", "exited"} /\ cacheCleared)
          => AllUnitsAttempted

\* A plan of two units has been gone through, the first skipped and the
\* second run to success, with no failure flagged.
C14_Witness ==
    /\ pc = "persist"
    /\ Len(calls) = 2
    /\ calls[1].outcome = "skipped"
    /\ calls[2].outcome = "success"
    /\ ~hasFailures

\* The file names of the plan that are not on the ignore list, in plan
\* order.
NotIgnoredOfPlan ==
    SelectSeq([i \in PlanIndexes |-> migrationsToExecute[i].filename],
              LAMBDA filename : ~OnIgnoreList(filename))

\* The callbacks that have called a handler, in the order of the calls.
HandlerStarts == SelectSeq(calls, LAMBDA c : c.direction \in {"up", "down"})

\* C15: at most one handler is in flight; a handler is called only when
\* the handlers called before it have settled; and the handlers called so
\* far are those of the first units of the plan that are not ignored, in
\* plan order.
C15_OneHandlerAtATime ==
    /\ Cardinality({i \in CallIndexes : calls[i].outcome = "running"}) <= 1
    /\ \A i, j \in CallIndexes : i < j => calls[i].outcome # "running"
    /\ Len(HandlerStarts) <= Len(NotIgnoredOfPlan)
    /\ \A i \in 1..Len(HandlerStarts) :
          HandlerStarts[i].filename = NotIgnoredOfPlan[i]

\* The handler of the second unit of a plan is in flight after the handler
\* of the first has settled.
C15_Witness ==
    /\ pc = "units"
    /\ Len(calls) = 2
    /\ calls[1].outcome \in {"success", "failure"}
    /\ calls[2].outcome = "running"

\* ------------------------------------------- properties of the discovery

\* C19: the list getAllMigrations returns is ordered by date: of two
\* consecutive descriptors, whichever directories they come from, the first
\* has no later date than the second.
C19_ListOrderedByDate ==
    \A i \in 1..(Len(allMigrations) - 1) :
        allMigrations[i].date <= allMigrations[i + 1].date

\* Some listed descriptor has a version that is no semantic version.
SomeVersionUnparsed ==
    \E i \in 1..Len(allMigrations) : allMigrations[i].version = NoVersion

\* C20: once a descriptor whose version does not parse is listed, the run
\* is aborted: the migrations are not executed, so the cache is not
\* cleared, no handler is called and no marker or row is written.
C20_UnparsedVersionAborts ==
    SomeVersionUnparsed =>
        /\ pc \notin {"units", "persist"}
        /\ ~cacheCleared
        /\ calls = <<>>
        /\ Durable = pre

\* ------------------------------------------------ properties of the cache

\* executeMigrations has started: it has removed the cache directory or
\* logged that it could not.
ExecutionStarted == cacheCleared \/ CouldNotClearCache \in logger

\* The process has ended after executeMigrations went through the whole
\* plan without a strict-mode exit.
RunWentThrough ==
    /\ Over
    /\ ExecutionStarted
    /\ AllUnitsAttempted
    /\ \A i \in CallIndexes : calls[i].outcome \in {"success", "failure"}
    /\ ~(hasFailures /\ ~IS_FAILSAFE)

\* C21: the cache directory is removed only before the first callback of
\* the plan, and when its removal does not throw it is removed by the time
\* the first callback runs; when its removal throws, the warning is logged
\* and the run goes on; and a run that has gone through its plan ends, with
\* or without the cache removed, recorded and with both markers at
\* targetVersion.
C21_CacheClearedFirst ==
    [][/\ cacheCleared' # cacheCleared =>
              (pc = "displayed" /\ calls = <<>> /\ calls' = <<>>)
       /\ (calls' # <<>> /\ "cache" \notin faults) => cacheCleared'
       /\ (calls' # <<>> /\ "cache" \in faults) =>
              (CouldNotClearCache \in logger' /\ ~cacheCleared')
       /\ (AUTO_MIGRATE /\ ~MIGRATE_DRYRUN /\ pc = "displayed") =>
              pc' = "units"
       /\ RunWentThrough' =>
              /\ pc' \in {"returned", "exited"}
              /\ coreMigrationCompleted'
              /\ MarkersAtTarget'
              /\ \A i \in 1..Len(calls') :
                    calls'[i].filename = ExpectedPlan[i].filename]_vars

\* The removal of the cache directory has thrown, the warning is logged,
\* two units have run to success and the run has ended with the database
\* marker moved.
C21_Witness ==
    /\ "cache" \in faults
    /\ CouldNotClearCache \in logger
    /\ pc = "returned"
    /\ Len(calls) = 2
    /\ \A i \in CallIndexes : calls[i].outcome = "success"
    /\ srv_metadata # pre.metadata
    /\ coreMigrationCompleted

\* ------------------------------------------- properties of the early return

\* C23: when the plan is empty and no migrate command is given, initialize
\* returns to the host with nothing displayed or logged, the cache not
\* cleared, no handler called, no row written and no marker changed,
\* whatever the markers are.
C23_NothingToDoReturns ==
    (Planned /\ migrationsToExecute = <<>> /\ MIGRATE_CMD = Undefined) =>
        /\ pc \in {"planned", "returned"}
        /\ ~displayed.shown
        /\ logger = {}
        /\ ~cacheCleared
        /\ calls = <<>>
        /\ ~coreMigrationCompleted
        /\ Durable = pre

\* An approved run without a migrate command has returned with an empty
\* plan while both markers differ from targetVersion.
C23_Witness ==
    /\ pc = "returned"
    /\ MIGRATE_CMD = Undefined
    /\ AUTO_MIGRATE
    /\ migrationsToExecute = <<>>
    /\ botpressConfig # targetVersion
    /\ srv_metadata # <<>>
    /\ SchemaMarker # targetVersion
    /\ allMigrations # <<>>

\* The handler of the direction of the run: up always, down when the file
\* exports one.
ExportsHandler(filename) == IsDown => disk[TitleOf(filename)].hasDown

\* C24: every unit of the plan exports the handler of the direction of the
\* run; every callback calls that handler, down in a downgrade and up
\* otherwise, so that no callback reads the success of an undefined
\* result, and initialize is rejected only by a handler that rejects.
C24_HandlerOfDirectionCalled ==
    /\ Planned => \A i \in PlanIndexes :
                      ExportsHandler(migrationsToExecute[i].filename)
    /\ \A i \in CallIndexes :
          /\ ExportsHandler(calls[i].filename)
          /\ calls[i].direction = IF IsDown THEN "down" ELSE "up"
          /\ calls[i].outcome # "TypeError"
    /\ pc = "rejected" => SomeCall("throw")

\* An upgrade has called the up handlers of two units, one of a file that
\* exports no down handler, and both have reported success.
C24_Witness ==
    /\ ~IsDown
    /\ Len(calls) = 2
    /\ \A i \in CallIndexes :
          calls[i].direction = "up" /\ calls[i].outcome = "success"
    /\ \E i \in CallIndexes : WithoutDown(calls[i].filename)

\* ------------------------------------------- properties of the loading

\* The callbacks that have called a handler.
HandlerCalls == {i \in CallIndexes : calls[i].direction \in {"up", "down"}}

\* C22: a module loaded under a file name stays loaded under that name and
\* is never replaced; and within a run the handler loaded under a file name
\* is called at most once, also when two listed files have the same name.
C22_LoadedOnceCalledOnce ==
    [][/\ \A fn \in DOMAIN loadedMigrations :
              /\ fn \in DOMAIN loadedMigrations'
              /\ loadedMigrations'[fn] = loadedMigrations[fn]
       /\ \A i, j \in {k \in 1..Len(calls') :
                            calls'[k].direction \in {"up", "down"}} :
              i # j => calls'[i].filename # calls'[j].filename]_vars

\* ----------------------------------- properties of the message repository

\* C25: a get of a message id called after a delete or deleteAll that
\* deleted the id has returned does not return the message, whatever calls
\* were in flight while the delete ran.
C25_DeletedMessageNotReturned ==
    \A result \in returned : result.late => ~result.found

====
